---- MODULE Spec2Model ----
(***************************************************************************)
(* termscp: the process entry point (src/main.rs) and the parameters form  *)
(* of the authentication activity (src/ui/activities/auth/components/      *)
(* form.rs).                                                               *)
(*                                                                         *)
(* Options (Option<T>) are sequences of length at most one: <<>> is None   *)
(* and <<x>> is Some(x).  Results of calls into the operating system and   *)
(* into libraries (the cipher, chdir, the terminal) are inputs of the      *)
(* actions, drawn with \E.                                                 *)
(***************************************************************************)
EXTENDS Integers, Sequences, FiniteSets, TLC

VARIABLES
    argv,         \* the arguments as argh::from_env returned them
    args,         \* main's args: cli_opts::Args, mutable
    key_file,     \* assets/secure-key.bin: its two index bytes and its fill
    key_buf,      \* decrypt_secure_password: key_buf, <<>> before the copy
    iv_buf,       \* decrypt_secure_password: iv_buf, <<>> before the copy
    key,          \* decrypt_secure_password: key (bytes of the String)
    iv,           \* decrypt_secure_password: iv (bytes of the String)
    pc,           \* position of main
    parse_result, \* what parse_args returned: "Pending", "Ok" or the error
    run_opts,     \* the RunOpts main holds after parse_args
    cwd,          \* the working directory of the process
    calls,        \* the calls made outside main.rs so far, in order
    rc,           \* the status main exits with, <<>> before it does
    component,    \* auth form: the component receiving the events
    choice,       \* auth form: Radio state, the selected index
    value,        \* auth form: Input state, the text
    cursor,       \* auth form: Input state, the cursor position
    msg,          \* auth form: what the last call of on() returned
    ev,           \* auth form: the last event delivered
    before,       \* auth form: the component's state when ev was delivered
    announced     \* auth form: the protocol the activity was last told of

vars == <<argv, args, key_file, key_buf, iv_buf, key, iv, pc, parse_result, run_opts,
          cwd, calls, rc, component, choice, value, cursor, msg, ev, before,
          announced>>

procVars == <<argv, args, key_file, key_buf, iv_buf, key, iv, pc, parse_result,
              run_opts, cwd, calls, rc>>

formVars == <<component, choice, value, cursor, msg, ev, before, announced>>

(***************************************************************************)
(* Bounds of the model.                                                    *)
(***************************************************************************)
MaxPositional == 2
MaxLen == 2
MaxIndex == 8

(***************************************************************************)
(* Program constants.                                                      *)
(***************************************************************************)
BlobLen == 144
IdxOffset1 == 128
IdxOffset2 == 129
KeyLen == 32
IvLen == 16
DefaultTicks == 10
ExitArgs == 255
PortInputLen == 5

None == <<>>
Some(x) == <<x>>

(***************************************************************************)
(* String::from_utf8_lossy on a byte sequence: well-formed UTF-8 is kept,  *)
(* every maximal ill-formed subpart becomes U+FFFD (EF BF BD).             *)
(***************************************************************************)
Replacement == <<239, 191, 189>>

Utf8Width(b) ==
    IF b >= 194 /\ b <= 223 THEN 2
    ELSE IF b >= 224 /\ b <= 239 THEN 3
    ELSE IF b >= 240 /\ b <= 244 THEN 4
    ELSE 0

Utf8SecondOk(b, c) ==
    IF b = 224 THEN c >= 160 /\ c <= 191
    ELSE IF b = 237 THEN c >= 128 /\ c <= 159
    ELSE IF b = 240 THEN c >= 144 /\ c <= 191
    ELSE IF b = 244 THEN c >= 128 /\ c <= 143
    ELSE c >= 128 /\ c <= 191

Utf8Matched(s) ==
    LET w == Utf8Width(s[1])
        okAt(i) == /\ i <= Len(s)
                   /\ IF i = 2 THEN Utf8SecondOk(s[1], s[2])
                               ELSE s[i] >= 128 /\ s[i] <= 191
    IN  IF ~okAt(2) THEN 1
        ELSE IF w = 2 THEN 2
        ELSE IF ~okAt(3) THEN 2
        ELSE IF w = 3 THEN 3
        ELSE IF ~okAt(4) THEN 3
        ELSE 4

RECURSIVE from_utf8_lossy(_)
from_utf8_lossy(s) ==
    IF s = <<>> THEN <<>>
    ELSE IF s[1] < 128 THEN <<s[1]>> \o from_utf8_lossy(Tail(s))
    ELSE IF Utf8Width(s[1]) = 0 THEN Replacement \o from_utf8_lossy(Tail(s))
    ELSE LET m == Utf8Matched(s)
         IN  IF m = Utf8Width(s[1])
             THEN SubSeq(s, 1, m) \o from_utf8_lossy(SubSeq(s, m + 1, Len(s)))
             ELSE Replacement \o from_utf8_lossy(SubSeq(s, m + 1, Len(s)))

(***************************************************************************)
(* &KEY_DATA[i..i + n]: the slice, or a panic when it ends past the blob.  *)
(***************************************************************************)
SliceInBounds(blob, i, n) == i + n <= Len(blob)

Slice(blob, i, n) == SubSeq(blob, i + 1, i + n)

(***************************************************************************)
(* The key blobs of the model: the two index bytes and a fill pattern.     *)
(***************************************************************************)
Fill(f, k) == IF f = 0 THEN 65 + (k % 26) ELSE (k * 37 + 11) % 256

Blob(i1, i2, f) ==
    [k \in 1..BlobLen |->
        IF k = IdxOffset1 + 1 THEN i1
        ELSE IF k = IdxOffset2 + 1 THEN i2
        ELSE Fill(f, k - 1)]

KEY_DATA == Blob(key_file.i1, key_file.i2, key_file.fill)

KeyFile(i1, i2, f) == [i1 |-> i1, i2 |-> i2, fill |-> f]

ManyIndexes == {0, 1, 100, 112, 113, 128, 129, 143, 255}

(***************************************************************************)
(* cli_opts: Args, Remote, Task, RunOpts.                                  *)
(***************************************************************************)
Subcommands ==
    { [cmd |-> "Update", theme |-> ""],
      [cmd |-> "LoadTheme", theme |-> "theme.toml"],
      [cmd |-> "Config", theme |-> ""] }

PositionalAt(i) ==
    IF i = 1 THEN "host" ELSE IF i = 2 THEN "localdir" ELSE "extra"

Positionals == { [i \in 1..n |-> PositionalAt(i)] : n \in 0..MaxPositional }

TicksChoices == {DefaultTicks, 50}

ArgsSet(secures, flags, ticksSet, passwords) ==
    [ nested : {None} \cup {Some(c) : c \in Subcommands},
      version : flags,
      debug : flags,
      quiet : flags,
      ticks : ticksSet,
      password : passwords,
      secure_password : secures,
      address_as_bookmark : BOOLEAN,
      positional : Positionals ]

RemoteNone == [kind |-> "None", target |-> "", password |-> None]

RemoteBookmark(name, password) ==
    [kind |-> "Bookmark", target |-> name, password |-> password]

RemoteHost(params, password) ==
    [kind |-> "Host", target |-> params, password |-> password]

TaskActivity(activity) == [kind |-> "Activity", arg |-> activity]

TaskImportTheme(theme) == [kind |-> "ImportTheme", arg |-> theme]

TaskInstallUpdate == [kind |-> "InstallUpdate", arg |-> ""]

RunOpts_default ==
    [ remote |-> RemoteNone,
      ticks |-> DefaultTicks,
      log_level |-> "Info",
      task |-> TaskActivity("Authentication") ]

RunOpts_update == [RunOpts_default EXCEPT !.task = TaskInstallUpdate]

RunOpts_import_theme(theme) ==
    [RunOpts_default EXCEPT !.task = TaskImportTheme(theme)]

RunOpts_config == [RunOpts_default EXCEPT !.task = TaskActivity("SetupConfig")]

Call(fn, arg, ok) == [fn |-> fn, arg |-> arg, ok |-> ok]

Called(fn) == \E i \in 1..Len(calls) : calls[i].fn = fn

(***************************************************************************)
(* parse_address_arg(args): the remote, or the bad-address error, with the *)
(* calls made.  addr_ok is the outcome of utils::parser::parse_remote_opt. *)
(***************************************************************************)
parse_address_arg_AlwaysParses(a, addr_ok) ==
    IF Len(a.positional) > 0
    THEN [ ok |-> addr_ok,
           remote |-> IF ~addr_ok THEN RemoteNone
                      ELSE IF a.address_as_bookmark
                      THEN RemoteBookmark(a.positional[1], a.password)
                      ELSE RemoteHost(a.positional[1], a.password),
           calls |-> <<Call("parse_remote_opt", a.positional[1], addr_ok)>> ]
    ELSE [ok |-> TRUE, remote |-> RemoteNone, calls |-> <<>>]

parse_address_arg(a, addr_ok) ==
    IF Len(a.positional) > 0
    THEN IF a.address_as_bookmark
         THEN [ ok |-> TRUE,
                remote |-> RemoteBookmark(a.positional[1], a.password),
                calls |-> <<>> ]
         ELSE [ ok |-> addr_ok,
                remote |-> IF addr_ok
                           THEN RemoteHost(a.positional[1], a.password)
                           ELSE RemoteNone,
                calls |-> <<Call("parse_remote_opt", a.positional[1], addr_ok)>> ]
    ELSE [ok |-> TRUE, remote |-> RemoteNone, calls |-> <<>>]

(***************************************************************************)
(* parse_args(args), the branch of a missing subcommand: the result       *)
(* ("Ok", or the error), the RunOpts, the working directory afterwards and *)
(* the calls made.  dir_ok is the outcome of env::set_current_dir.         *)
(***************************************************************************)
parse_args_none_QuietFirst(a, dir, addr_ok, dir_ok) ==
    LET o0 == RunOpts_default
        o1 == IF a.quiet THEN [o0 EXCEPT !.log_level = "Off"]
              ELSE IF a.debug THEN [o0 EXCEPT !.log_level = "Trace"]
              ELSE o0
        o2 == [o1 EXCEPT !.ticks = a.ticks]
        r  == parse_address_arg(a, addr_ok)
        o3 == IF r.ok /\ r.remote.kind # "None"
              THEN [o2 EXCEPT !.remote = r.remote,
                              !.task = TaskActivity("FileTransfer")]
              ELSE o2
        cd == Call("set_current_dir", a.positional[2], dir_ok)
    IN  IF a.version
        THEN [result |-> "Version", opts |-> o0, cwd |-> dir, calls |-> <<>>]
        ELSE IF ~r.ok
        THEN [result |-> "BadAddress", opts |-> o2, cwd |-> dir,
              calls |-> r.calls]
        ELSE IF Len(a.positional) > 1
        THEN IF dir_ok
             THEN [result |-> "Ok", opts |-> o3, cwd |-> a.positional[2],
                   calls |-> r.calls \o <<cd>>]
             ELSE [result |-> "BadWorkingDir", opts |-> o3, cwd |-> dir,
                   calls |-> r.calls \o <<cd>>]
        ELSE [result |-> "Ok", opts |-> o3, cwd |-> dir, calls |-> r.calls]

parse_args_none_ChdirFirst(a, dir, addr_ok, dir_ok) ==
    LET o0 == RunOpts_default
        o1 == IF a.debug THEN [o0 EXCEPT !.log_level = "Trace"]
              ELSE IF a.quiet THEN [o0 EXCEPT !.log_level = "Off"]
              ELSE o0
        o2 == [o1 EXCEPT !.ticks = a.ticks]
        r  == parse_address_arg(a, addr_ok)
        o3 == IF r.ok /\ r.remote.kind # "None"
              THEN [o2 EXCEPT !.remote = r.remote,
                              !.task = TaskActivity("FileTransfer")]
              ELSE o2
        cd == IF Len(a.positional) > 1
              THEN <<Call("set_current_dir", a.positional[2], dir_ok)>>
              ELSE <<>>
        d2 == IF Len(a.positional) > 1 /\ dir_ok THEN a.positional[2] ELSE dir
    IN  IF a.version
        THEN [result |-> "Version", opts |-> o0, cwd |-> dir, calls |-> <<>>]
        ELSE IF Len(a.positional) > 1 /\ ~dir_ok
        THEN [result |-> "BadWorkingDir", opts |-> o2, cwd |-> dir,
              calls |-> cd]
        ELSE IF ~r.ok
        THEN [result |-> "BadAddress", opts |-> o2, cwd |-> d2,
              calls |-> cd \o r.calls]
        ELSE [result |-> "Ok", opts |-> o3, cwd |-> d2, calls |-> cd \o r.calls]

parse_args_none(a, dir, addr_ok, dir_ok) ==
    LET o0 == RunOpts_default
        o1 == IF a.debug THEN [o0 EXCEPT !.log_level = "Trace"]
              ELSE IF a.quiet THEN [o0 EXCEPT !.log_level = "Off"]
              ELSE o0
        o2 == [o1 EXCEPT !.ticks = a.ticks]
        r  == parse_address_arg(a, addr_ok)
        o3 == IF r.ok /\ r.remote.kind # "None"
              THEN [o2 EXCEPT !.remote = r.remote,
                              !.task = TaskActivity("FileTransfer")]
              ELSE o2
        cd == Call("set_current_dir", a.positional[2], dir_ok)
    IN  IF a.version
        THEN [result |-> "Version", opts |-> o0, cwd |-> dir, calls |-> <<>>]
        ELSE IF ~r.ok
        THEN [result |-> "BadAddress", opts |-> o2, cwd |-> dir,
              calls |-> r.calls]
        ELSE IF Len(a.positional) > 1
        THEN IF dir_ok
             THEN [result |-> "Ok", opts |-> o3, cwd |-> a.positional[2],
                   calls |-> r.calls \o <<cd>>]
             ELSE [result |-> "BadWorkingDir", opts |-> o3, cwd |-> dir,
                   calls |-> r.calls \o <<cd>>]
        ELSE [result |-> "Ok", opts |-> o3, cwd |-> dir, calls |-> r.calls]

parse_args_FlagsFirst(a, dir, addr_ok, dir_ok) ==
    LET r == parse_args_none(a, dir, addr_ok, dir_ok)
        sub == a.nested[1]
        t == IF sub.cmd = "Update" THEN TaskInstallUpdate
             ELSE IF sub.cmd = "LoadTheme" THEN TaskImportTheme(sub.theme)
             ELSE TaskActivity("SetupConfig")
    IN  IF a.nested = None \/ r.result # "Ok"
        THEN r
        ELSE [r EXCEPT !.opts.task = t]

parse_args(a, dir, addr_ok, dir_ok) ==
    IF a.nested = None
    THEN parse_args_none(a, dir, addr_ok, dir_ok)
    ELSE LET sub == a.nested[1]
             o == IF sub.cmd = "Update" THEN RunOpts_update
                  ELSE IF sub.cmd = "LoadTheme"
                       THEN RunOpts_import_theme(sub.theme)
                  ELSE RunOpts_config
         IN  [result |-> "Ok", opts |-> o, cwd |-> dir, calls |-> <<>>]

(***************************************************************************)
(* Initial states.                                                         *)
(***************************************************************************)
InitForm0 ==
    /\ component = "ProtocolRadio"
    /\ choice = 0
    /\ value = <<>>
    /\ cursor = 0
    /\ msg = None
    /\ ev = [code |-> "Unset", ch |-> "", modifiers |-> {}]
    /\ before = [choice |-> choice, value |-> value, cursor |-> cursor]
    /\ announced = "Sftp"

InitProc(argsSet, keyFiles) ==
    /\ argv \in argsSet
    /\ args = argv
    /\ key_file \in keyFiles
    /\ key_buf = <<>>
    /\ iv_buf = <<>>
    /\ key = <<>>
    /\ iv = <<>>
    /\ pc = "main"
    /\ parse_result = "Pending"
    /\ run_opts = RunOpts_default
    /\ cwd = "startdir"
    /\ calls = <<>>
    /\ rc = None

Init ==
    /\ InitProc(ArgsSet({None, Some("sealed")}, BOOLEAN, TicksChoices,
                        {None, Some("pw")}),
                {KeyFile(0, 16, 0), KeyFile(113, 0, 1), KeyFile(64, 129, 1)})
    /\ InitForm0

(***************************************************************************)
(* main, lines 42-52, with decrypt_secure_password.                        *)
(***************************************************************************)
NoSecurePassword ==
    /\ pc = "main"
    /\ args.secure_password = None
    /\ pc' = "parse_args"
    /\ UNCHANGED <<argv, args, key_file, key_buf, iv_buf, key, iv, parse_result,
                   run_opts, cwd, calls, rc>>
    /\ UNCHANGED formVars

KeyIndex_Swapped(blob) == blob[IdxOffset2 + 1]

KeyIndex(blob) == blob[IdxOffset1 + 1]

IvIndex(blob) == blob[IdxOffset2 + 1]

DeriveKeyBuf(blob) == Slice(blob, KeyIndex(blob), KeyLen)

DeriveIvBuf(blob) == Slice(blob, IvIndex(blob), IvLen)

DecryptSecurePassword_KeepsPassword ==
    /\ pc = "main"
    /\ args.secure_password # None
    /\ SliceInBounds(KEY_DATA, KeyIndex(KEY_DATA), KeyLen)
    /\ SliceInBounds(KEY_DATA, IvIndex(KEY_DATA), IvLen)
    /\ key_buf' = DeriveKeyBuf(KEY_DATA)
    /\ iv_buf' = DeriveIvBuf(KEY_DATA)
    /\ key' = from_utf8_lossy(key_buf')
    /\ iv' = from_utf8_lossy(iv_buf')
    /\ \E ok \in BOOLEAN :
        /\ calls' = Append(calls,
                           Call("decrypt_base64_to_string",
                                args.secure_password[1], ok))
        /\ IF ok
           THEN /\ args' = IF args.password = None
                         THEN [args EXCEPT !.password = Some("cleartext")]
                         ELSE args
                /\ pc' = "parse_args"
                /\ rc' = rc
           ELSE /\ args' = args
                /\ pc' = "exited"
                /\ rc' = Some(ExitArgs)
    /\ UNCHANGED <<argv, key_file, parse_result, run_opts, cwd>>
    /\ UNCHANGED formVars

DecryptSecurePassword ==
    /\ pc = "main"
    /\ args.secure_password # None
    /\ SliceInBounds(KEY_DATA, KeyIndex(KEY_DATA), KeyLen)
    /\ SliceInBounds(KEY_DATA, IvIndex(KEY_DATA), IvLen)
    /\ key_buf' = DeriveKeyBuf(KEY_DATA)
    /\ iv_buf' = DeriveIvBuf(KEY_DATA)
    /\ key' = from_utf8_lossy(key_buf')
    /\ iv' = from_utf8_lossy(iv_buf')
    /\ \E ok \in BOOLEAN :
        /\ calls' = Append(calls,
                           Call("decrypt_base64_to_string",
                                args.secure_password[1], ok))
        /\ IF ok
           THEN /\ args' = [args EXCEPT !.password = Some("cleartext")]
                /\ pc' = "parse_args"
                /\ rc' = rc
           ELSE /\ args' = args
                /\ pc' = "exited"
                /\ rc' = Some(ExitArgs)
    /\ UNCHANGED <<argv, key_file, parse_result, run_opts, cwd>>
    /\ UNCHANGED formVars

DecryptPanic ==
    /\ pc = "main"
    /\ args.secure_password # None
    /\ \/ /\ ~SliceInBounds(KEY_DATA, KeyIndex(KEY_DATA), KeyLen)
          /\ key_buf' = key_buf
       \/ /\ SliceInBounds(KEY_DATA, KeyIndex(KEY_DATA), KeyLen)
          /\ ~SliceInBounds(KEY_DATA, IvIndex(KEY_DATA), IvLen)
          /\ key_buf' = DeriveKeyBuf(KEY_DATA)
    /\ pc' = "panicked"
    /\ UNCHANGED <<argv, args, key_file, iv_buf, key, iv, parse_result, run_opts,
                   cwd, calls, rc>>
    /\ UNCHANGED formVars

(***************************************************************************)
(* main, lines 55-61: parse_args and the exit on its error.                *)
(***************************************************************************)
ParseArgs ==
    /\ pc = "parse_args"
    /\ \E addr_ok \in BOOLEAN, dir_ok \in BOOLEAN :
        LET r == parse_args(args, cwd, addr_ok, dir_ok)
        IN  /\ parse_result' = r.result
            /\ cwd' = r.cwd
            /\ calls' = calls \o r.calls
            /\ IF r.result = "Ok"
               THEN /\ run_opts' = r.opts
                    /\ pc' = "logging"
                    /\ rc' = rc
               ELSE /\ run_opts' = run_opts
                    /\ pc' = "exited"
                    /\ rc' = Some(ExitArgs)
    /\ UNCHANGED <<argv, args, key_file, key_buf, iv_buf, key, iv>>
    /\ UNCHANGED formVars

(***************************************************************************)
(* main, lines 63-66: logging::init; its failure is only reported.         *)
(***************************************************************************)
LoggingInit ==
    /\ pc = "logging"
    /\ \E ok \in BOOLEAN :
        calls' = Append(calls, Call("logging::init", run_opts.log_level, ok))
    /\ pc' = "run"
    /\ UNCHANGED <<argv, args, key_file, key_buf, iv_buf, key, iv, parse_result,
                   run_opts, cwd, rc>>
    /\ UNCHANGED formVars

(***************************************************************************)
(* run and main's exit with its result, lines 69-72 and 180-242.           *)
(***************************************************************************)
Exit(code) ==
    /\ pc' = "exited"
    /\ rc' = Some(code)

RunImportTheme_AlwaysZero ==
    /\ pc = "run"
    /\ run_opts.task.kind = "ImportTheme"
    /\ \E ok \in BOOLEAN :
        /\ calls' = Append(calls, Call("import_theme", run_opts.task.arg, ok))
        /\ Exit(0)
    /\ UNCHANGED <<argv, args, key_file, key_buf, iv_buf, key, iv, parse_result,
                   run_opts, cwd>>
    /\ UNCHANGED formVars

RunImportTheme ==
    /\ pc = "run"
    /\ run_opts.task.kind = "ImportTheme"
    /\ \E ok \in BOOLEAN :
        /\ calls' = Append(calls, Call("import_theme", run_opts.task.arg, ok))
        /\ Exit(IF ok THEN 0 ELSE 1)
    /\ UNCHANGED <<argv, args, key_file, key_buf, iv_buf, key, iv, parse_result,
                   run_opts, cwd>>
    /\ UNCHANGED formVars

RunInstallUpdate ==
    /\ pc = "run"
    /\ run_opts.task.kind = "InstallUpdate"
    /\ \E ok \in BOOLEAN :
        /\ calls' = Append(calls, Call("install_update", "", ok))
        /\ Exit(IF ok THEN 0 ELSE 1)
    /\ UNCHANGED <<argv, args, key_file, key_buf, iv_buf, key, iv, parse_result,
                   run_opts, cwd>>
    /\ UNCHANGED formVars

run_activity_IgnoresRemoteError(remote, new_ok, remote_ok) ==
    LET new == Call("ActivityManager::new", "", new_ok)
        set == IF remote.kind = "Bookmark"
               THEN <<Call("resolve_bookmark_name", remote.target, remote_ok)>>
               ELSE IF remote.kind = "Host"
               THEN <<Call("set_filetransfer_params", remote.target, remote_ok)>>
               ELSE <<>>
    IN  IF ~new_ok
        THEN [runs |-> FALSE, calls |-> <<new>>]
        ELSE [runs |-> TRUE, calls |-> <<new>> \o set]

(* run_activity up to the call of manager.run: the calls made and whether  *)
(* manager.run is reached.  new_ok and remote_ok are the outcomes of       *)
(* ActivityManager::new and of applying the remote.                        *)
run_activity(remote, new_ok, remote_ok) ==
    LET new == Call("ActivityManager::new", "", new_ok)
        set == IF remote.kind = "Bookmark"
               THEN <<Call("resolve_bookmark_name", remote.target, remote_ok)>>
               ELSE IF remote.kind = "Host"
               THEN <<Call("set_filetransfer_params", remote.target, remote_ok)>>
               ELSE <<>>
    IN  IF ~new_ok
        THEN [runs |-> FALSE, calls |-> <<new>>]
        ELSE IF set # <<>> /\ ~remote_ok
        THEN [runs |-> FALSE, calls |-> <<new>> \o set]
        ELSE [runs |-> TRUE, calls |-> <<new>> \o set]

RunActivity ==
    /\ pc = "run"
    /\ run_opts.task.kind = "Activity"
    /\ \E new_ok \in BOOLEAN, remote_ok \in BOOLEAN :
        LET r == run_activity(run_opts.remote, new_ok, remote_ok)
        IN  IF r.runs
            THEN /\ calls' = calls \o r.calls
                           \o <<Call("manager.run", run_opts.task.arg, TRUE)>>
                 /\ pc' = "manager.run"
                 /\ rc' = rc
            ELSE /\ calls' = calls \o r.calls
                 /\ Exit(1)
    /\ UNCHANGED <<argv, args, key_file, key_buf, iv_buf, key, iv, parse_result,
                   run_opts, cwd>>
    /\ UNCHANGED formVars

ManagerRunReturns ==
    /\ pc = "manager.run"
    /\ Exit(0)
    /\ UNCHANGED <<argv, args, key_file, key_buf, iv_buf, key, iv, parse_result,
                   run_opts, cwd, calls>>
    /\ UNCHANGED formVars

Next ==
    \/ NoSecurePassword
    \/ DecryptSecurePassword
    \/ DecryptPanic
    \/ ParseArgs
    \/ LoggingInit
    \/ RunImportTheme
    \/ RunInstallUpdate
    \/ RunActivity
    \/ ManagerRunReturns

Spec == Init /\ [][Next]_vars

(***************************************************************************)
(* The parameters form of the authentication activity (form.rs).           *)
(*                                                                         *)
(* An event is a key event (code, the character of Key::Char, modifiers)   *)
(* or, with code "Tick", an event that is not a key event.  A message is a *)
(* record; on() returns an Option of it.                                   *)
(***************************************************************************)
Components ==
    { "ProtocolRadio", "InputAddress", "InputPort", "InputUsername",
      "InputPassword", "InputS3Bucket", "InputS3Region", "InputS3Profile" }

Inputs == Components \ {"ProtocolRadio"}

Chars == {"a", "0", "9"}

Digits == {"0", "9"}

KeyModifiers == SUBSET {"SHIFT", "CONTROL"}

KeyCodes ==
    { "Left", "Right", "Home", "End", "Delete", "Backspace", "Enter", "Down",
      "Up", "Tab", "Esc", "Tick" }

Events ==
    [code : KeyCodes, ch : {""}, modifiers : KeyModifiers]
    \cup [code : {"Char"}, ch : Chars, modifiers : KeyModifiers]

Msg(name) == [name |-> name, arg |-> ""]

MsgProtocolChanged(protocol) == [name |-> "ProtocolChanged", arg |-> protocol]

RadioChoices == <<"SFTP", "SCP", "FTP", "FTPS", "AWS S3">>

protocol_opt_to_enum(protocol) ==
    IF protocol = 1 THEN "Scp"
    ELSE IF protocol = 2 THEN "Ftp(false)"
    ELSE IF protocol = 3 THEN "Ftp(true)"
    ELSE IF protocol = 4 THEN "AwsS3"
    ELSE "Sftp"

protocol_enum_to_opt_FtpSwapped(protocol) ==
    CASE protocol = "Sftp" -> 0
      [] protocol = "Scp" -> 1
      [] protocol = "Ftp(false)" -> 3
      [] protocol = "Ftp(true)" -> 2
      [] protocol = "AwsS3" -> 4

protocol_enum_to_opt(protocol) ==
    CASE protocol = "Sftp" -> 0
      [] protocol = "Scp" -> 1
      [] protocol = "Ftp(false)" -> 2
      [] protocol = "Ftp(true)" -> 3
      [] protocol = "AwsS3" -> 4

Protocols == {"Sftp", "Scp", "Ftp(false)", "Ftp(true)", "AwsS3"}

RadioMove_NoRewind(c, dir) ==
    LET n == Len(RadioChoices)
    IN  IF dir = "Right"
        THEN IF c + 1 < n THEN c + 1 ELSE c
        ELSE IF c > 0 THEN c - 1 ELSE c

(* Radio::perform(Cmd::Move(dir)) with rewind on: the new index.           *)
RadioMove(c, dir) ==
    LET n == Len(RadioChoices)
    IN  IF dir = "Right"
        THEN IF c + 1 < n THEN c + 1 ELSE 0
        ELSE IF c > 0 THEN c - 1 ELSE n - 1

(* ProtocolRadio::on: the message and the radio's index afterwards.        *)
ProtocolRadio_on(e, c) ==
    IF e.code \in {"Left", "Right"}
    THEN LET c2 == RadioMove(c, e.code)
         IN  [msg |-> Some(MsgProtocolChanged(protocol_opt_to_enum(c2))),
              choice |-> c2]
    ELSE IF e.code = "Enter" THEN [msg |-> Some(Msg("Connect")), choice |-> c]
    ELSE IF e.code = "Down"
         THEN [msg |-> Some(Msg("ProtocolBlurDown")), choice |-> c]
    ELSE IF e.code = "Up"
         THEN [msg |-> Some(Msg("ProtocolBlurUp")), choice |-> c]
    ELSE IF e.code = "Tab"
         THEN [msg |-> Some(Msg("ParamsFormBlur")), choice |-> c]
    ELSE [msg |-> None, choice |-> c]

(* Input::perform: the text and the cursor after a command.  itype is the  *)
(* InputType and max the input_len (0: none).                              *)
RemoveAt(v, i) == SubSeq(v, 1, i - 1) \o SubSeq(v, i + 1, Len(v))

InsertAt(v, i, ch) == SubSeq(v, 1, i) \o <<ch>> \o SubSeq(v, i + 1, Len(v))

CharValid(itype, ch) == itype # "UnsignedInteger" \/ ch \in Digits

InputPerform(cmd, ch, v, cur, itype, max) ==
    CASE cmd = "MoveLeft" ->
            [value |-> v, cursor |-> IF cur > 0 THEN cur - 1 ELSE cur]
      [] cmd = "MoveRight" ->
            [value |-> v, cursor |-> IF cur + 1 <= Len(v) THEN cur + 1 ELSE cur]
      [] cmd = "GoToBegin" -> [value |-> v, cursor |-> 0]
      [] cmd = "GoToEnd" -> [value |-> v, cursor |-> Len(v)]
      [] cmd = "Cancel" ->
            IF cur < Len(v)
            THEN [value |-> RemoveAt(v, cur + 1), cursor |-> cur]
            ELSE [value |-> v, cursor |-> cur]
      [] cmd = "Delete" ->
            IF cur > 0 /\ v # <<>>
            THEN [value |-> RemoveAt(v, cur), cursor |-> cur - 1]
            ELSE [value |-> v, cursor |-> cur]
      [] cmd = "Type" ->
            IF (max = 0 \/ Len(v) < max) /\ CharValid(itype, ch)
            THEN [value |-> InsertAt(v, cur, ch), cursor |-> cur + 1]
            ELSE [value |-> v, cursor |-> cur]

(* The on() shared by the seven text inputs: they differ in the names of   *)
(* the two blur messages and in the Input they wrap.                       *)
InputOn(e, v, cur, itype, max, blurDown, blurUp) ==
    LET same == [value |-> v, cursor |-> cur]
        performed(cmd) ==
            LET r == InputPerform(cmd, e.ch, v, cur, itype, max)
            IN  [msg |-> Some(Msg("None")), value |-> r.value,
                 cursor |-> r.cursor]
        returned(m) == [msg |-> m, value |-> v, cursor |-> cur]
    IN  CASE e.code = "Left" -> performed("MoveLeft")
          [] e.code = "Right" -> performed("MoveRight")
          [] e.code = "Home" -> performed("GoToBegin")
          [] e.code = "End" -> performed("GoToEnd")
          [] e.code = "Delete" -> performed("Cancel")
          [] e.code = "Backspace" -> performed("Delete")
          [] e.code = "Char" /\ e.modifiers = {} -> performed("Type")
          [] e.code = "Enter" -> returned(Some(Msg("Connect")))
          [] e.code = "Down" -> returned(Some(Msg(blurDown)))
          [] e.code = "Up" -> returned(Some(Msg(blurUp)))
          [] e.code = "Tab" -> returned(Some(Msg("ParamsFormBlur")))
          [] OTHER -> returned(None)

InputAddress_on(e, v, cur) ==
    InputOn(e, v, cur, "Text", 0, "AddressBlurDown", "AddressBlurUp")

InputPort_on_TabBlursField(e, v, cur) ==
    InputOn(IF e.code = "Tab" THEN [e EXCEPT !.code = "Down"] ELSE e,
            v, cur, "UnsignedInteger", PortInputLen, "PortBlurDown",
            "PortBlurUp")

InputPort_on_AcceptsText(e, v, cur) ==
    InputOn(e, v, cur, "Text", PortInputLen, "PortBlurDown", "PortBlurUp")

InputPort_on(e, v, cur) ==
    InputOn(e, v, cur, "UnsignedInteger", PortInputLen, "PortBlurDown",
            "PortBlurUp")

InputUsername_on_TypesModified(e, v, cur) ==
    InputOn(IF e.code = "Char" THEN [e EXCEPT !.modifiers = {}] ELSE e,
            v, cur, "Text", 0, "UsernameBlurDown", "UsernameBlurUp")

InputUsername_on(e, v, cur) ==
    InputOn(e, v, cur, "Text", 0, "UsernameBlurDown", "UsernameBlurUp")

InputPassword_on(e, v, cur) ==
    InputOn(e, v, cur, "Password", 0, "PasswordBlurDown", "PasswordBlurUp")

InputS3Bucket_on(e, v, cur) ==
    InputOn(e, v, cur, "Text", 0, "S3BucketBlurDown", "S3BucketBlurUp")

InputS3Region_on(e, v, cur) ==
    InputOn(e, v, cur, "Text", 0, "S3RegionBlurDown", "S3RegionBlurUp")

InputS3Profile_on_EnterUnmodified(e, v, cur) ==
    IF e.code = "Enter" /\ e.modifiers # {}
    THEN [msg |-> None, value |-> v, cursor |-> cur]
    ELSE InputOn(e, v, cur, "Text", 0, "S3ProfileBlurDown", "S3ProfileBlurUp")

InputS3Profile_on(e, v, cur) ==
    InputOn(e, v, cur, "Text", 0, "S3ProfileBlurDown", "S3ProfileBlurUp")

Input_on(c, e, v, cur) ==
    CASE c = "InputAddress" -> InputAddress_on(e, v, cur)
      [] c = "InputPort" -> InputPort_on(e, v, cur)
      [] c = "InputUsername" -> InputUsername_on(e, v, cur)
      [] c = "InputPassword" -> InputPassword_on(e, v, cur)
      [] c = "InputS3Bucket" -> InputS3Bucket_on(e, v, cur)
      [] c = "InputS3Region" -> InputS3Region_on(e, v, cur)
      [] c = "InputS3Profile" -> InputS3Profile_on(e, v, cur)

(* The texts a component is built with: a port is a u16 printed in         *)
(* decimal, the other fields take any text.                                *)
InitialValues(c) ==
    IF c = "InputPort" THEN {<<"9">>, <<"9", "0">>}
    ELSE {<<>>, <<"a">>}

RadioEvent ==
    /\ component = "ProtocolRadio"
    /\ \E e \in Events :
        LET r == ProtocolRadio_on(e, choice)
        IN  /\ ev' = e
            /\ msg' = r.msg
            /\ choice' = r.choice
            /\ announced' = IF r.msg # None /\ r.msg[1].name = "ProtocolChanged"
                            THEN r.msg[1].arg
                            ELSE announced
    /\ before' = [choice |-> choice, value |-> value, cursor |-> cursor]
    /\ UNCHANGED <<component, value, cursor>>
    /\ UNCHANGED procVars

InputEvent ==
    /\ component \in Inputs
    /\ \E e \in Events :
        LET r == Input_on(component, e, value, cursor)
        IN  /\ component = "InputPort" \/ Len(r.value) <= MaxLen
            /\ ev' = e
            /\ msg' = r.msg
            /\ value' = r.value
            /\ cursor' = r.cursor
    /\ before' = [choice |-> choice, value |-> value, cursor |-> cursor]
    /\ UNCHANGED <<component, choice, announced>>
    /\ UNCHANGED procVars

NextForm == RadioEvent \/ InputEvent

(* The process while the authentication activity runs.                     *)
InitProcAuth ==
    /\ argv = [ nested |-> None, version |-> FALSE, debug |-> FALSE,
                quiet |-> FALSE, ticks |-> DefaultTicks, password |-> None,
                secure_password |-> None, address_as_bookmark |-> FALSE,
                positional |-> <<>> ]
    /\ args = argv
    /\ key_file = KeyFile(0, 16, 0)
    /\ key_buf = <<>>
    /\ iv_buf = <<>>
    /\ key = <<>>
    /\ iv = <<>>
    /\ pc = "manager.run"
    /\ parse_result = "Ok"
    /\ run_opts = RunOpts_default
    /\ cwd = "startdir"
    /\ calls = << Call("logging::init", "Info", TRUE),
                  Call("ActivityManager::new", "", TRUE),
                  Call("manager.run", "Authentication", TRUE) >>
    /\ rc = None

InitForm ==
    /\ InitProcAuth
    /\ component \in Components
    /\ announced \in IF component = "ProtocolRadio" THEN Protocols ELSE {"Sftp"}
    /\ choice = IF component = "ProtocolRadio"
                THEN protocol_enum_to_opt(announced)
                ELSE 0
    /\ value \in IF component = "ProtocolRadio"
                 THEN {<<>>}
                 ELSE InitialValues(component)
    /\ cursor = Len(value)
    /\ msg = None
    /\ ev = [code |-> "Unset", ch |-> "", modifiers |-> {}]
    /\ before = [choice |-> choice, value |-> value, cursor |-> cursor]

SpecForm == InitForm /\ [][NextForm]_vars

(* The protocol radio alone, built with each default protocol.             *)
InitRadio ==
    /\ InitForm
    /\ component = "ProtocolRadio"

NextRadio == RadioEvent

SpecRadio == InitRadio /\ [][NextRadio]_vars

(* Every key blob of the model, with a secure password to decrypt.         *)
InitKey ==
    /\ InitProc(ArgsSet({None, Some("sealed"), Some("other")}, {FALSE},
                        {DefaultTicks}, {None}),
                {KeyFile(i1, i2, f) : i1 \in ManyIndexes, i2 \in ManyIndexes,
                                      f \in {0, 1}})
    /\ InitForm0

SpecKey == InitKey /\ [][Next]_vars

(***************************************************************************)
(* Properties.                                                             *)
(***************************************************************************)
CallsOf(fn) == {i \in 1..Len(calls) : calls[i].fn = fn}

Failed(fn) == \E i \in CallsOf(fn) : ~calls[i].ok

Succeeded(fn) == \E i \in CallsOf(fn) : calls[i].ok

TaskCalls ==
    { "import_theme", "install_update", "ActivityManager::new",
      "resolve_bookmark_name", "set_filetransfer_params", "manager.run" }

(* C1: the process exits with 255 exactly when argument handling fails     *)
(* (the secure password cannot be decrypted, the address cannot be parsed  *)
(* or the local directory cannot be entered), and then logging is not      *)
(* initialised and no task or activity is run; an invocation with valid    *)
(* arguments never exits with 255.                                         *)
C1_Exit255IffArgumentFailure ==
    /\ rc = Some(ExitArgs)
         <=> \/ Failed("decrypt_base64_to_string")
             \/ Failed("parse_remote_opt")
             \/ Failed("set_current_dir")
    /\ rc = Some(ExitArgs)
         => /\ ~Called("logging::init")
            /\ \A fn \in TaskCalls : ~Called(fn)

(* C2: for the theme and update subcommands the exit code is 0 exactly     *)
(* when the import or install returned success and 1 exactly when it       *)
(* returned an error, and no activity manager is created or run.           *)
C2_SubcommandExitCode ==
    (args.nested # None /\ args.nested[1].cmd \in {"LoadTheme", "Update"})
    => LET op == IF args.nested[1].cmd = "LoadTheme"
                 THEN "import_theme" ELSE "install_update"
       IN  /\ rc = Some(0) <=> Succeeded(op)
           /\ rc = Some(1) <=> Failed(op)
           /\ Cardinality(CallsOf(op)) <= 1
           /\ \A i \in CallsOf("import_theme") :
                 calls[i].arg = args.nested[1].theme
           /\ ~Called("ActivityManager::new")
           /\ ~Called("manager.run")

C2_Witness ==
    /\ args.nested = Some([cmd |-> "LoadTheme", theme |-> "theme.toml"])
    /\ Failed("import_theme")
    /\ rc = Some(1)

(* C3: Enter on any of the eight fields, with any modifiers, returns the   *)
(* message Connect and changes neither the text nor the radio selection.   *)
C3_EnterConnects ==
    ev.code = "Enter"
    => /\ msg = Some([name |-> "Connect", arg |-> ""])
       /\ value = before.value
       /\ choice = before.choice

C3_Witness ==
    /\ ev.code = "Enter"
    /\ ev.modifiers = {"SHIFT", "CONTROL"}
    /\ component = "InputS3Profile"
    /\ value # <<>>
    /\ msg = Some([name |-> "Connect", arg |-> ""])

(* C4: Tab on any of the eight fields returns the message ParamsFormBlur,  *)
(* never a field blur and never Connect, and leaves the content unchanged. *)
C4_TabBlursParamsForm ==
    ev.code = "Tab"
    => /\ msg = Some([name |-> "ParamsFormBlur", arg |-> ""])
       /\ value = before.value
       /\ cursor = before.cursor
       /\ choice = before.choice

C4_Witness ==
    /\ ev.code = "Tab"
    /\ component = "InputPort"
    /\ value # <<>>
    /\ msg = Some([name |-> "ParamsFormBlur", arg |-> ""])

(* C5: the key is the 32 bytes of the blob from the index at offset 128,   *)
(* the IV the 16 bytes from the index at offset 129, each read as UTF-8;   *)
(* neither depends on the sealed input.                                    *)
BlobBytes(start, n) == [k \in 1..n |-> KEY_DATA[start + k]]

IsAscii(bytes) == \A k \in 1..Len(bytes) : bytes[k] < 128

C5_KeyFromBlobOnly ==
    LET i1 == KEY_DATA[129]
        i2 == KEY_DATA[130]
    IN  /\ key_buf # <<>> => key_buf = BlobBytes(i1, 32)
        /\ iv_buf # <<>> => iv_buf = BlobBytes(i2, 16)
        /\ key # <<>>
             => /\ key = from_utf8_lossy(BlobBytes(i1, 32))
                /\ IsAscii(BlobBytes(i1, 32)) => key = BlobBytes(i1, 32)
        /\ iv # <<>>
             => /\ iv = from_utf8_lossy(BlobBytes(i2, 16))
                /\ IsAscii(BlobBytes(i2, 16)) => iv = BlobBytes(i2, 16)
        /\ Called("decrypt_base64_to_string") => key # <<>> /\ iv # <<>>

C5_Witness ==
    /\ Called("decrypt_base64_to_string")
    /\ args.secure_password = Some("other")
    /\ key_file.i1 = 1
    /\ key_file.i2 = 100
    /\ key_file.fill = 0
    /\ key = key_buf
    /\ Len(key_buf) = 32
    /\ Len(iv_buf) = 16

(* C6: with an activity task, a failure to create the activity manager, to *)
(* resolve the bookmark name or to set the file-transfer params exits with *)
(* 1 and manager.run is never called; manager.run is called only after the *)
(* remote, if any, was applied successfully, and the exit code is then 0.  *)
C6_ActivityExitCode ==
    LET setup == { "ActivityManager::new", "resolve_bookmark_name",
                   "set_filetransfer_params" }
        applied == IF run_opts.remote.kind = "Bookmark"
                   THEN "resolve_bookmark_name"
                   ELSE "set_filetransfer_params"
    IN  /\ (\E fn \in setup : Failed(fn))
             => /\ rc = Some(1)
                /\ ~Called("manager.run")
        /\ \A i \in CallsOf("manager.run") :
             /\ \E j \in 1..(i - 1) :
                   calls[j] = Call("ActivityManager::new", "", TRUE)
             /\ run_opts.remote.kind # "None"
                  => \E j \in 1..(i - 1) :
                        calls[j] = Call(applied, run_opts.remote.target, TRUE)
             /\ calls[i].arg = run_opts.task.arg
        /\ (Called("manager.run") /\ pc = "exited") => rc = Some(0)
        /\ (Called("ActivityManager::new") /\ rc = Some(0))
             => Called("manager.run")

C6_Witness ==
    /\ run_opts.remote.kind = "Bookmark"
    /\ Succeeded("ActivityManager::new")
    /\ Failed("resolve_bookmark_name")
    /\ rc = Some(1)

(* C7: a subcommand alone selects the task (config: the SetupConfig        *)
(* activity, theme: the theme import, update: the update install); the     *)
(* flags --version, --debug, --quiet, --ticks and the positionals do not   *)
(* change the run options, and the working directory is not changed.       *)
C7_SubcommandSelectsTask ==
    (args.nested # None /\ parse_result # "Pending")
    => LET sub == args.nested[1]
       IN  /\ parse_result = "Ok"
           /\ run_opts.task =
                 (CASE sub.cmd = "Config" ->
                          [kind |-> "Activity", arg |-> "SetupConfig"]
                    [] sub.cmd = "LoadTheme" ->
                          [kind |-> "ImportTheme", arg |-> sub.theme]
                    [] sub.cmd = "Update" ->
                          [kind |-> "InstallUpdate", arg |-> ""])
           /\ run_opts.log_level = RunOpts_default.log_level
           /\ run_opts.ticks = RunOpts_default.ticks
           /\ run_opts.remote = RunOpts_default.remote
           /\ cwd = "startdir"
           /\ ~Called("set_current_dir")
           /\ ~Called("parse_remote_opt")

C7_Witness ==
    /\ args.nested = Some([cmd |-> "Config", theme |-> ""])
    /\ args.version
    /\ args.debug
    /\ args.ticks # DefaultTicks
    /\ Len(args.positional) = 2
    /\ pc = "run"
    /\ run_opts.task = [kind |-> "Activity", arg |-> "SetupConfig"]

(* C8: without a subcommand the first activity is FileTransfer exactly     *)
(* when a positional address was given and accepted: none leaves the       *)
(* remote None and the default activity; with --address-as-bookmark the    *)
(* positional is the bookmark name and no address is parsed; otherwise the *)
(* positional must parse as an address or parsing fails.                   *)
C8_FirstActivity ==
    (args.nested = None /\ parse_result # "Pending")
    => LET given == Len(args.positional) > 0
           fileTransfer ==
               run_opts.task = [kind |-> "Activity", arg |-> "FileTransfer"]
       IN  /\ parse_result = "Ok" => (fileTransfer <=> given)
           /\ (parse_result = "Ok" /\ ~given)
                => /\ run_opts.remote.kind = "None"
                   /\ run_opts.task = RunOpts_default.task
           /\ (given /\ args.address_as_bookmark)
                => /\ ~Called("parse_remote_opt")
                   /\ parse_result # "BadAddress"
                   /\ parse_result = "Ok"
                        => run_opts.remote =
                              [ kind |-> "Bookmark",
                                target |-> args.positional[1],
                                password |-> args.password ]
           /\ (given /\ ~args.address_as_bookmark /\ ~args.version)
                => /\ Called("parse_remote_opt")
                   /\ Failed("parse_remote_opt") <=> parse_result = "BadAddress"
                   /\ parse_result = "Ok"
                        => /\ run_opts.remote.kind = "Host"
                           /\ run_opts.remote.target = args.positional[1]
           /\ ~given => ~Called("parse_remote_opt")

C8_Witness ==
    /\ args.nested = None
    /\ args.address_as_bookmark
    /\ args.positional = <<"host">>
    /\ parse_result = "Ok"
    /\ run_opts.remote.kind = "Bookmark"
    /\ run_opts.task = [kind |-> "Activity", arg |-> "FileTransfer"]

(* C9: without a subcommand --debug sets the log level to Trace and        *)
(* --quiet to Off; with both the level is Trace; with neither the default  *)
(* level stays.                                                            *)
C9_LogLevel ==
    (args.nested = None /\ parse_result = "Ok")
    => /\ args.debug => run_opts.log_level = "Trace"
       /\ (args.quiet /\ ~args.debug) => run_opts.log_level = "Off"
       /\ (~args.quiet /\ ~args.debug)
            => run_opts.log_level = RunOpts_default.log_level
       /\ \A i \in CallsOf("logging::init") :
             calls[i].arg = run_opts.log_level

C9_Witness ==
    /\ args.nested = None
    /\ args.debug
    /\ args.quiet
    /\ Called("logging::init")
    /\ run_opts.log_level = "Trace"

(* C10: key derivation never reads outside the 144-byte blob: a blob whose *)
(* index bytes give i1 + 32 or i2 + 16 past its end is rejected before use *)
(* and decrypting a secure password never aborts at run time.              *)
C10_NoOutOfBoundsAbort == pc # "panicked"

(* C11: the protocol last announced to the activity is the protocol of the *)
(* radio's selected index: every Left/Right that changes the selection     *)
(* (wrapping around at both ends) returns ProtocolChanged with the         *)
(* protocol of the new index, a Left/Right that leaves it returns          *)
(* Msg::None, and no other event moves the selection.                      *)
IndexProtocol(i) ==
    CASE i = 0 -> "Sftp"
      [] i = 1 -> "Scp"
      [] i = 2 -> "Ftp(false)"
      [] i = 3 -> "Ftp(true)"
      [] i = 4 -> "AwsS3"

C11_AnnouncedProtocol ==
    component = "ProtocolRadio"
    => /\ choice \in 0..4
       /\ announced = IndexProtocol(choice)
       /\ (ev.code \in {"Left", "Right"} /\ choice # before.choice)
            => msg = Some([name |-> "ProtocolChanged",
                           arg |-> IndexProtocol(choice)])
       /\ (ev.code \in {"Left", "Right"} /\ choice = before.choice)
            => msg = Some([name |-> "None", arg |-> ""])
       /\ ev.code = "Right" => choice = (before.choice + 1) % 5
       /\ ev.code = "Left" => choice = (before.choice + 4) % 5
       /\ ev.code \notin {"Left", "Right"} => choice = before.choice

C11_Witness ==
    /\ component = "ProtocolRadio"
    /\ ev.code = "Right"
    /\ before.choice = 4
    /\ choice = 0
    /\ announced = "Sftp"
    /\ msg = Some([name |-> "ProtocolChanged", arg |-> "Sftp"])

(* C12: the two protocol conversions are inverse of each other on the five *)
(* protocols and on the indexes 0..4, the index of a protocol is the       *)
(* position of its label in the radio's choices, and every index above 4   *)
(* converts to SFTP.                                                       *)
ProtocolLabel(p) ==
    CASE p = "Sftp" -> "SFTP"
      [] p = "Scp" -> "SCP"
      [] p = "Ftp(false)" -> "FTP"
      [] p = "Ftp(true)" -> "FTPS"
      [] p = "AwsS3" -> "AWS S3"

C12_ConversionsInverse ==
    /\ component = "ProtocolRadio"
         => /\ protocol_opt_to_enum(protocol_enum_to_opt(announced)) = announced
            /\ protocol_enum_to_opt(protocol_opt_to_enum(choice)) = choice
            /\ RadioChoices[protocol_enum_to_opt(announced) + 1]
                 = ProtocolLabel(announced)
            /\ ev.code = "Unset" => choice = protocol_enum_to_opt(announced)
    /\ \A p \in Protocols :
         /\ protocol_opt_to_enum(protocol_enum_to_opt(p)) = p
         /\ RadioChoices[protocol_enum_to_opt(p) + 1] = ProtocolLabel(p)
    /\ \A i \in 0..4 : protocol_enum_to_opt(protocol_opt_to_enum(i)) = i
    /\ \A i \in 5..MaxIndex : protocol_opt_to_enum(i) = "Sftp"

C12_Witness ==
    /\ component = "ProtocolRadio"
    /\ ev.code = "Left"
    /\ before.choice = 0
    /\ choice = 4
    /\ announced = "AwsS3"
    /\ protocol_enum_to_opt(announced) = 4

(* C13: the port field only ever holds a port number in 1..65535, after    *)
(* any sequence of key events.                                             *)
DigitValue(ch) == IF ch = "9" THEN 9 ELSE 0

RECURSIVE DecimalValue(_)
DecimalValue(v) ==
    IF v = <<>> THEN 0
    ELSE 10 * DecimalValue(SubSeq(v, 1, Len(v) - 1)) + DigitValue(v[Len(v)])

C13_PortAlwaysValid ==
    component = "InputPort"
    => /\ value # <<>>
       /\ \A k \in 1..Len(value) : value[k] \in {"0", "9"}
       /\ DecimalValue(value) >= 1
       /\ DecimalValue(value) <= 65535

(* C13, amended: the port field only ever holds at most five decimal       *)
(* digits; the text may be empty, zero or above 65535.                     *)
C13_PortAtMostFiveDigits ==
    component = "InputPort"
    => /\ Len(value) <= 5
       /\ \A k \in 1..Len(value) : value[k] \in {"0", "9"}
       /\ cursor >= 0
       /\ cursor <= Len(value)

C13_Witness ==
    /\ component = "InputPort"
    /\ ev.code = "Char"
    /\ value = <<"9", "9", "9", "9", "9">>
    /\ DecimalValue(value) > 65535

(* C14: a secure password that decrypts replaces any --password value and  *)
(* is the password attached to the remote, host or bookmark; one that does *)
(* not decrypt makes the process exit with 255 before parse_args is        *)
(* called, whatever --password or subcommand was given.                    *)
C14_SecurePassword ==
    /\ Succeeded("decrypt_base64_to_string")
         => /\ argv.secure_password # None
            /\ args.password = Some("cleartext")
            /\ (parse_result = "Ok" /\ argv.nested = None
                  /\ Len(argv.positional) > 0)
                 => /\ run_opts.remote.kind
                         = IF argv.address_as_bookmark
                           THEN "Bookmark" ELSE "Host"
                    /\ run_opts.remote.password = Some("cleartext")
    /\ Failed("decrypt_base64_to_string")
         => /\ argv.secure_password # None
            /\ rc = Some(255)
            /\ pc = "exited"
            /\ parse_result = "Pending"
            /\ Len(calls) = 1
            /\ cwd = "startdir"
    /\ (argv.secure_password # None /\ parse_result # "Pending")
         => Succeeded("decrypt_base64_to_string")

C14_Witness ==
    /\ argv.password = Some("pw")
    /\ argv.secure_password = Some("sealed")
    /\ Succeeded("decrypt_base64_to_string")
    /\ parse_result = "Ok"
    /\ run_opts.remote.kind = "Bookmark"
    /\ run_opts.remote.password = Some("cleartext")

(* C15: the working directory is changed only after the address argument   *)
(* was accepted: it is unchanged when parse_args fails with a bad address  *)
(* or returns the version message, and it is changed at most once, to the  *)
(* second positional argument.                                             *)
C15_WorkingDirectory ==
    LET chdirs == CallsOf("set_current_dir")
    IN  /\ parse_result \in {"BadAddress", "Version"}
             => /\ cwd = "startdir"
                /\ chdirs = {}
        /\ Cardinality(chdirs) <= 1
        /\ \A i \in chdirs :
             /\ argv.nested = None
             /\ Len(argv.positional) >= 2
             /\ calls[i].arg = argv.positional[2]
             /\ ~Failed("parse_remote_opt")
             /\ \A j \in CallsOf("parse_remote_opt") : j < i
             /\ (~argv.address_as_bookmark) => Succeeded("parse_remote_opt")
        /\ cwd # "startdir"
             => /\ Succeeded("set_current_dir")
                /\ cwd = argv.positional[2]
        /\ Succeeded("set_current_dir") => cwd = argv.positional[2]
        /\ Failed("set_current_dir")
             => /\ cwd = "startdir"
                /\ parse_result = "BadWorkingDir"

C15_Witness ==
    /\ argv.nested = None
    /\ ~argv.address_as_bookmark
    /\ Len(argv.positional) = 2
    /\ Succeeded("parse_remote_opt")
    /\ Succeeded("set_current_dir")
    /\ cwd = "localdir"
    /\ parse_result = "Ok"

(* C16: on each of the seven text inputs the editing keys Left, Right,     *)
(* Home, End, Delete, Backspace and an unmodified character return only    *)
(* Msg::None; a character with a modifier held, and every key other than   *)
(* those and Enter, Up, Down and Tab, returns no message and leaves the    *)
(* value and the cursor unchanged.                                         *)
C16_EditingKeys ==
    LET editing == \/ ev.code \in { "Left", "Right", "Home", "End", "Delete",
                                   "Backspace" }
                   \/ ev.code = "Char" /\ ev.modifiers = {}
        handled == editing \/ ev.code \in {"Enter", "Up", "Down", "Tab"}
    IN  (component \in Inputs /\ ev.code # "Unset")
        => /\ editing => msg = Some([name |-> "None", arg |-> ""])
           /\ ~handled
                => /\ msg = None
                   /\ value = before.value
                   /\ cursor = before.cursor
           /\ msg \in { Some([name |-> "Connect", arg |-> ""]),
                        Some([name |-> "ParamsFormBlur", arg |-> ""]) }
                => ev.code \in {"Enter", "Tab"}
           /\ (msg # None /\ msg[1].name \notin {"None", "Connect",
                                                 "ParamsFormBlur"})
                => ev.code \in {"Up", "Down"}

C16_Witness ==
    /\ component = "InputUsername"
    /\ ev.code = "Char"
    /\ ev.modifiers = {"SHIFT"}
    /\ msg = None
    /\ before.value = <<"a">>
    /\ value = <<"a">>
    /\ cursor = before.cursor

====
